---- MODULE Spec2Model ----
(***************************************************************************)
(* Server side of the collaborative canvas: the per-room DrawingState      *)
(* (operation log, undo/redo cursor, member roster, active strokes), the   *)
(* RoomManager registry and the socket.io message handlers of server.js.   *)
(* Each handler runs to completion (Node's single-threaded event loop), so *)
(* one action is one whole handler.                                        *)
(***************************************************************************)
EXTENDS Integers, Sequences, FiniteSets, TLC

(* ---------------------------- bounds ----------------------------------- *)

\* maxHistorySize of drawing-state.js (1000 there), scaled down
MaxHistorySize == 2
\* longest point sequence a staged stroke may reach in the model
MaxPoints == 3
\* number of messages the server handles in a run of Spec
MaxMessages == 4

\* socket ids (userId = socket.id) and the room ids clients may name
Sockets == {"c1", "c2"}
RoomIds == {"rA", "rB"}

(* ---------------------------- values ----------------------------------- *)

\* A stroke object.  hasPoints says whether the object has a `points`
\* array at all (shape and text strokes have none); endPos = 0 stands for
\* "no endPos property".
Stroke(tool, hasPoints, points, endPos, timestamp) ==
    [tool |-> tool, hasPoints |-> hasPoints, points |-> points,
     endPos |-> endPos, timestamp |-> timestamp]

BrushStroke == Stroke("brush", TRUE, <<1>>, 0, 1)
RectStroke  == Stroke("rectangle", FALSE, <<>>, 1, 2)

\* stroke payloads of strokeStart and strokeEnd messages
StartPayloads == {BrushStroke, RectStroke}
EndPayloads   == {BrushStroke, RectStroke}
\* `points` / `endPos` payloads of strokeDraw messages
DrawPoints == {<<2, 3>>}
DrawEndPos == {2}

(* ---------------------------- state ------------------------------------ *)

VARIABLES
    rooms,      \* RoomManager.rooms: roomId -> DrawingState (a Map: the
                \* domain is the set of keys present)
    status,     \* per socket: "connected" or "gone" (after 'disconnect')
    last,       \* the message handled last: handler, sending socket and
                \* room id named, the room's log length, cursor and staged
                \* authors as the handler found them, and what its call of
                \* DrawingState.undo()/redo() returned (<<>> when none)
    crashed,    \* an exception escaped a handler (uncaught: process dies)
    handled,    \* number of messages handled so far
    joined,     \* per socket: the socket.io rooms it is in (socket.join)
    sent,       \* what the last handler emitted, in order: each entry is
                \* one emit with the set of sockets it goes to
    channel,    \* per socket: the emitted messages on their way to that
                \* client, oldest first, each with the number of the
                \* handler run that emitted it
    received,   \* per socket: the numbers of the canvasState / operation
                \* messages its client has processed, in order
    clients,    \* per socket: the client's history pair
    disk,       \* PersistenceManager's data directory: roomId -> the
                \* content of the room's file (a Map: the domain is the
                \* set of files present)
    io          \* the PersistenceManager call made last, how the file
                \* system answered and what the call returned

net == <<channel, received, clients>>
store == <<disk, io>>
vars == <<rooms, status, last, crashed, handled, joined, sent, channel,
          received, clients, disk, io>>

(* ---------------------- JavaScript array helpers ----------------------- *)

Max(a, b) == IF a > b THEN a ELSE b
Min(a, b) == IF a < b THEN a ELSE b

\* Array.prototype.slice(start, end): negative indices count from the end,
\* both are clamped to [0, length]
RelIndex(i, len) == IF i < 0 THEN Max(len + i, 0) ELSE Min(i, len)

ArraySlice(arr, start, end) ==
    LET len  == Len(arr)
        from == RelIndex(start, len)
        to   == RelIndex(end, len)
    IN  IF to <= from THEN <<>>
        ELSE [k \in 1..(to - from) |-> arr[from + k]]

(* ------------------------- DrawingState -------------------------------- *)

\* constructor(roomId)
NewDrawingState ==
    [operations |-> <<>>, currentIndex |-> -1, users |-> {},
     activeStrokes |-> <<>>]

\* a Map without the key k
MapDelete(m, k) == [x \in (DOMAIN m) \ {k} |-> m[x]]
\* Map.set(k, v)
MapSet(m, k, v) == [x \in (DOMAIN m) \cup {k} |-> IF x = k THEN v ELSE m[x]]

addUser(room, userId) == [room EXCEPT !.users = @ \cup {userId}]

\* removeUser that empties the stage instead of deleting the user's entry
removeUserStateClearsStage(room, userId) ==
    [room EXCEPT !.users = @ \ {userId}, !.activeStrokes = <<>>]

removeUserState(room, userId) ==
    [room EXCEPT !.users = @ \ {userId},
                 !.activeStrokes = MapDelete(@, userId)]

hasUser(room, userId) == userId \in room.users
getUserCount(room) == Cardinality(room.users)

\* setActiveStroke that also enters the stroke in the history
setActiveStrokeInLog(room, userId, stroke) ==
    [room EXCEPT !.activeStrokes = MapSet(@, userId, stroke),
                 !.operations = Append(@, [type |-> "draw", stroke |-> stroke,
                                           userId |-> userId,
                                           timestamp |-> stroke.timestamp]),
                 !.currentIndex = @ + 1]

\* setActiveStroke that keeps one staged stroke per room
setActiveStrokeSingle(room, userId, stroke) ==
    [room EXCEPT !.activeStrokes = MapSet(<<>>, userId, stroke)]

setActiveStroke(room, userId, stroke) ==
    [room EXCEPT !.activeStrokes = MapSet(@, userId, stroke)]
hasActiveStroke(room, userId) == userId \in DOMAIN room.activeStrokes
clearActiveStroke(room, userId) ==
    [room EXCEPT !.activeStrokes = MapDelete(@, userId)]

\* addOperation without the history limit
addOperationUnlimited(room, operation) ==
    LET truncated == IF room.currentIndex < Len(room.operations) - 1
                     THEN ArraySlice(room.operations, 0, room.currentIndex + 1)
                     ELSE room.operations
    IN  [room EXCEPT !.operations = Append(truncated, operation),
                     !.currentIndex = @ + 1]

\* addOperation that keeps the forward history when appending
addOperationKeepForward(room, operation) ==
    LET pushed    == Append(room.operations, operation)
        index     == Len(pushed) - 1
        removeCount == Len(pushed) - MaxHistorySize
    IN  IF Len(pushed) > MaxHistorySize
        THEN [room EXCEPT !.operations = ArraySlice(pushed, removeCount, Len(pushed)),
                          !.currentIndex = index - removeCount]
        ELSE [room EXCEPT !.operations = pushed, !.currentIndex = index]

\* addOperation that trims without moving the cursor
addOperationStaleIndex(room, operation) ==
    LET truncated == IF room.currentIndex < Len(room.operations) - 1
                     THEN ArraySlice(room.operations, 0, room.currentIndex + 1)
                     ELSE room.operations
        pushed    == Append(truncated, operation)
        index     == room.currentIndex + 1
        removeCount == Len(pushed) - MaxHistorySize
    IN  IF Len(pushed) > MaxHistorySize
        THEN [room EXCEPT !.operations = ArraySlice(pushed, removeCount, Len(pushed)),
                          !.currentIndex = index]
        ELSE [room EXCEPT !.operations = pushed, !.currentIndex = index]

addOperation(room, operation) ==
    LET truncated == IF room.currentIndex < Len(room.operations) - 1
                     THEN ArraySlice(room.operations, 0, room.currentIndex + 1)
                     ELSE room.operations
        pushed    == Append(truncated, operation)
        index     == room.currentIndex + 1
        removeCount == Len(pushed) - MaxHistorySize
    IN  IF Len(pushed) > MaxHistorySize
        THEN [room EXCEPT !.operations = ArraySlice(pushed, removeCount, Len(pushed)),
                          !.currentIndex = index - removeCount]
        ELSE [room EXCEPT !.operations = pushed, !.currentIndex = index]

\* undo() that drops the operation it steps over
undoPops(room) ==
    IF room.currentIndex < 0 THEN room
    ELSE [room EXCEPT !.operations = ArraySlice(@, 0, room.currentIndex),
                      !.currentIndex = @ - 1]

\* undo() without its guard
undoUnguarded(room) == [room EXCEPT !.currentIndex = @ - 1]

\* undo() / redo(): the value returned and the state left behind
undoReturns(room) == ~(room.currentIndex < 0)
undo(room) ==
    IF room.currentIndex < 0 THEN room
    ELSE [room EXCEPT !.currentIndex = @ - 1]

\* redo() that jumps to the end of the log
redoToEnd(room) ==
    IF room.currentIndex >= Len(room.operations) - 1 THEN room
    ELSE [room EXCEPT !.currentIndex = Len(room.operations) - 1]

\* redo() that tests against the length instead of the last index
redoPastEnd(room) ==
    IF room.currentIndex >= Len(room.operations) THEN room
    ELSE [room EXCEPT !.currentIndex = @ + 1]

redoReturns(room) == ~(room.currentIndex >= Len(room.operations) - 1)
redo(room) ==
    IF room.currentIndex >= Len(room.operations) - 1 THEN room
    ELSE [room EXCEPT !.currentIndex = @ + 1]

\* clear() that forgets the active strokes
clearKeepStrokes(room) ==
    [room EXCEPT !.operations = <<>>, !.currentIndex = -1]

clear(room) ==
    [room EXCEPT !.operations = <<>>, !.currentIndex = -1,
                 !.activeStrokes = <<>>]

\* getOperations() with the cursor taken as an exclusive end
getOperationsExclusive(room) ==
    ArraySlice(room.operations, 0, room.currentIndex)

getOperations(room) == ArraySlice(room.operations, 0, room.currentIndex + 1)
getAllOperations(room) == room.operations

(* -------------------------- RoomManager -------------------------------- *)

\* getRoom(roomId): the registry after the call (the room is created when
\* the key is missing; loading from persistence is commented out)
getRoom(rs, roomId) ==
    IF roomId \in DOMAIN rs THEN rs ELSE MapSet(rs, roomId, NewDrawingState)

\* removeUser(roomId, userId)
removeUser(rs, roomId, userId) ==
    IF roomId \notin DOMAIN rs THEN rs
    ELSE LET room == removeUserState(rs[roomId], userId)
         IN  IF getUserCount(room) = 0
             THEN MapDelete(rs, roomId)
             ELSE [rs EXCEPT ![roomId] = room]

\* the room ids removeUserFromAllRooms(userId) returns
roomsOfUser(rs, userId) == {r \in DOMAIN rs : hasUser(rs[r], userId)}

\* removeUserFromAllRooms(userId): removeUser on every room that has the
\* user, one room after the other
RECURSIVE removeUserFromEach(_, _, _)
removeUserFromEach(rs, roomIds, userId) ==
    IF roomIds = {} THEN rs
    ELSE LET r == CHOOSE x \in roomIds : TRUE
         IN  removeUserFromEach(removeUser(rs, r, userId), roomIds \ {r}, userId)

removeUserFromAllRooms(rs, userId) ==
    removeUserFromEach(rs, roomsOfUser(rs, userId), userId)

(* --------------------------- handlers ---------------------------------- *)

Live(s) == ~crashed /\ status[s] = "connected"

\* the record of a handled message; room is the DrawingState the handler
\* obtained from getRoom
Handled(handler, s, roomId, room, ret) ==
    [handler |-> handler, socket |-> s, roomId |-> roomId,
     length |-> Len(room.operations), index |-> room.currentIndex,
     active |-> DOMAIN room.activeStrokes, returned |-> ret]

(* recipients of an emit, jn being the socket.io room membership *)
\* socket.emit(...)
ToSelf(s) == {s}
\* io.to(roomId).emit(...)
ToRoom(jn, roomId) == {c \in Sockets : roomId \in jn[c]}
\* socket.to(roomId) that does not leave the sender out
ToOthersAndSelf(jn, s, roomId) == ToRoom(jn, roomId)

\* socket.to(roomId).emit(...)
ToOthers(jn, s, roomId) == ToRoom(jn, roomId) \ {s}

(* the emitted events; requestUserId and timestamp, which the server only *)
(* passes through, are left out                                          *)
CanvasStateMsg(to, room) ==
    [event |-> "canvasState", to |-> to,
     operations |-> getOperations(room), currentIndex |-> room.currentIndex]
StrokeMsg(to, phase, stroke, userId) ==
    [event |-> "stroke", to |-> to, phase |-> phase, stroke |-> stroke,
     userId |-> userId]
CursorMsg(to, userId) == [event |-> "cursor", to |-> to, userId |-> userId]
OperationMsg(to, type, operations, currentIndex) ==
    [event |-> "operation", to |-> to, type |-> type,
     operations |-> operations, currentIndex |-> currentIndex]
NotificationMsg(to, message) ==
    [event |-> "notification", to |-> to, message |-> message]
UserJoinedMsg(to, userId) == [event |-> "userJoined", to |-> to, userId |-> userId]
UserLeftMsg(to, userId) == [event |-> "userLeft", to |-> to, userId |-> userId]
OnlineUsersMsg(to, room) == [event |-> "onlineUsers", to |-> to, users |-> room.users]

\* joinRoom that sends the snapshot to the whole room
joinRoomEmitsSnapshotToRoom(jn, s, roomId, room) ==
    << CanvasStateMsg(ToRoom(jn, roomId), room),
       UserJoinedMsg(ToOthers(jn, s, roomId), s),
       OnlineUsersMsg(ToRoom(jn, roomId), room) >>

\* what joinRoom emits, room being the DrawingState after addUser
joinRoomEmits(jn, s, roomId, room) ==
    << CanvasStateMsg(ToSelf(s), room),
       UserJoinedMsg(ToOthers(jn, s, roomId), s),
       OnlineUsersMsg(ToRoom(jn, roomId), room) >>

\* socket.on('joinRoom')
JoinRoom(s, roomId) ==
    /\ Live(s)
    /\ joined' = [joined EXCEPT ![s] = @ \cup {roomId}]
    /\ LET rs == getRoom(rooms, roomId)
       IN  rooms' = [rs EXCEPT ![roomId] = addUser(@, s)]
    /\ sent' = joinRoomEmits(joined', s, roomId, rooms'[roomId])
    /\ last' = Handled("joinRoom", s, roomId, getRoom(rooms, roomId)[roomId], <<>>)
    /\ UNCHANGED <<status, crashed>>

\* socket.on('strokeStart')
StrokeStart(s, roomId, stroke) ==
    /\ Live(s)
    /\ LET rs == getRoom(rooms, roomId)
       IN  rooms' = [rs EXCEPT ![roomId] = setActiveStroke(@, s, stroke)]
    /\ sent' = << StrokeMsg(ToOthers(joined, s, roomId), "start", stroke, s) >>
    /\ last' = Handled("strokeStart", s, roomId, getRoom(rooms, roomId)[roomId], <<>>)
    /\ UNCHANGED <<status, crashed, joined>>

\* push that puts the new points in front of the staged ones
pushPointsFront(stroke, points) == [stroke EXCEPT !.points = points \o @]

\* activeStroke.points.push(...points) / activeStroke.endPos = endPos
pushPoints(stroke, points) == [stroke EXCEPT !.points = @ \o points]
setEndPos(stroke, endPos) == [stroke EXCEPT !.endPos = endPos]

\* socket.on('strokeDraw') carrying `points` (any array is truthy)
StrokeDrawPoints(s, roomId, points) ==
    /\ Live(s)
    /\ LET rs == getRoom(rooms, roomId)
           room == rs[roomId]
       IN  IF ~hasActiveStroke(room, s)
           THEN rooms' = rs /\ crashed' = FALSE /\ sent' = <<>>
           ELSE IF ~room.activeStrokes[s].hasPoints
           \* activeStroke.points is undefined: push throws a TypeError
           THEN rooms' = rs /\ crashed' = TRUE /\ sent' = <<>>
           ELSE /\ Len(room.activeStrokes[s].points) + Len(points) <= MaxPoints
                /\ rooms' = [rs EXCEPT ![roomId].activeStrokes[s] = pushPoints(@, points)]
                /\ crashed' = FALSE
                /\ sent' = << StrokeMsg(ToOthers(joined, s, roomId), "draw",
                                        [points |-> points], s) >>
    /\ last' = Handled("strokeDraw", s, roomId, getRoom(rooms, roomId)[roomId], <<>>)
    /\ UNCHANGED <<status, joined>>

\* socket.on('strokeDraw') carrying no `points` but an `endPos`
StrokeDrawEndPos(s, roomId, endPos) ==
    /\ Live(s)
    /\ LET rs == getRoom(rooms, roomId)
           room == rs[roomId]
       IN  IF ~hasActiveStroke(room, s)
           THEN rooms' = rs /\ sent' = <<>>
           ELSE /\ rooms' = [rs EXCEPT ![roomId].activeStrokes[s] = setEndPos(@, endPos)]
                /\ sent' = << StrokeMsg(ToOthers(joined, s, roomId), "draw",
                                        [endPos |-> endPos], s) >>
    /\ last' = Handled("strokeDraw", s, roomId, getRoom(rooms, roomId)[roomId], <<>>)
    /\ UNCHANGED <<status, crashed, joined>>

\* strokeEnd operation that takes the author from the stroke of the message
DrawOperationClaimed(s, stroke) ==
    [type |-> "draw", stroke |-> stroke, userId |-> stroke.userId,
     timestamp |-> stroke.timestamp]

\* the operation strokeEnd builds from the message's stroke
DrawOperation(s, stroke) ==
    [type |-> "draw", stroke |-> stroke, userId |-> s,
     timestamp |-> stroke.timestamp]

\* strokeEnd that sends the state before the stroke-end message
strokeEndEmitsStateFirst(jn, s, roomId, stroke, room) ==
    << CanvasStateMsg(ToRoom(jn, roomId), room),
       StrokeMsg(ToOthers(jn, s, roomId), "end", stroke, s) >>

\* strokeEnd that sends the new state to the other members only
strokeEndEmitsOthersOnly(jn, s, roomId, stroke, room) ==
    << StrokeMsg(ToOthers(jn, s, roomId), "end", stroke, s),
       CanvasStateMsg(ToOthers(jn, s, roomId), room) >>

\* what strokeEnd emits, room being the DrawingState after addOperation and
\* clearActiveStroke
strokeEndEmits(jn, s, roomId, stroke, room) ==
    << StrokeMsg(ToOthers(jn, s, roomId), "end", stroke, s),
       CanvasStateMsg(ToRoom(jn, roomId), room) >>

\* strokeEnd that commits only for an author with a staged stroke
StrokeEndStagedOnly(s, roomId, stroke) ==
    /\ Live(s)
    /\ LET rs == getRoom(rooms, roomId)
           added == addOperation(rs[roomId], DrawOperation(s, stroke))
       IN  IF hasActiveStroke(rs[roomId], s)
           THEN /\ rooms' = [rs EXCEPT ![roomId] = clearActiveStroke(added, s)]
                /\ sent' = strokeEndEmits(joined, s, roomId, stroke, rooms'[roomId])
           ELSE rooms' = rs /\ sent' = <<>>
    /\ last' = Handled("strokeEnd", s, roomId, getRoom(rooms, roomId)[roomId], <<>>)
    /\ UNCHANGED <<status, crashed, joined>>

\* socket.on('strokeEnd') with a stroke payload
StrokeEnd(s, roomId, stroke) ==
    /\ Live(s)
    /\ LET rs == getRoom(rooms, roomId)
           added == addOperation(rs[roomId], DrawOperation(s, stroke))
       IN  rooms' = [rs EXCEPT ![roomId] = clearActiveStroke(added, s)]
    /\ sent' = strokeEndEmits(joined, s, roomId, stroke, rooms'[roomId])
    /\ last' = Handled("strokeEnd", s, roomId, getRoom(rooms, roomId)[roomId], <<>>)
    /\ UNCHANGED <<status, crashed, joined>>

\* socket.on('strokeEnd') without a stroke: reading stroke.timestamp throws
\* after getRoom has run
StrokeEndNoStroke(s, roomId) ==
    /\ Live(s)
    /\ rooms' = getRoom(rooms, roomId)
    /\ crashed' = TRUE
    /\ sent' = <<>>
    /\ last' = Handled("strokeEnd", s, roomId, getRoom(rooms, roomId)[roomId], <<>>)
    /\ UNCHANGED <<status, joined>>

\* socket.on('cursor')
Cursor(s, roomId) ==
    /\ Live(s)
    /\ sent' = << CursorMsg(ToOthers(joined, s, roomId), s) >>
    /\ last' = Handled("cursor", s, roomId, getRoom(rooms, roomId)[roomId], <<>>)
    /\ UNCHANGED <<rooms, status, crashed, joined>>

\* undo / redo that broadcast the visible operations only
undoRedoEmitsVisible(jn, s, roomId, type, ok, room) ==
    IF ok
    THEN << OperationMsg(ToRoom(jn, roomId), type, getOperations(room),
                         room.currentIndex) >>
    ELSE << NotificationMsg(ToSelf(s), "Nothing to " \o type) >>

\* undo / redo that tell the whole room when there is nothing to do
undoRedoEmitsNotifyRoom(jn, s, roomId, type, ok, room) ==
    IF ok
    THEN << OperationMsg(ToRoom(jn, roomId), type, getAllOperations(room),
                         room.currentIndex) >>
    ELSE << NotificationMsg(ToRoom(jn, roomId) \cup ToSelf(s), "Nothing to " \o type) >>

\* what undo / redo emit: ok is what room.undo() / room.redo() returned,
\* room the DrawingState after the call
undoRedoEmits(jn, s, roomId, type, ok, room) ==
    IF ok
    THEN << OperationMsg(ToRoom(jn, roomId), type, getAllOperations(room),
                         room.currentIndex) >>
    ELSE << NotificationMsg(ToSelf(s), "Nothing to " \o type) >>

\* undo that only steps over an operation of the requester's own
UndoOwnOnly(s, roomId) ==
    /\ Live(s)
    /\ LET rs == getRoom(rooms, roomId)
           own == /\ undoReturns(rs[roomId])
                  /\ rs[roomId].operations[rs[roomId].currentIndex + 1].userId = s
       IN  /\ rooms' = IF own THEN [rs EXCEPT ![roomId] = undo(@)] ELSE rs
           /\ sent' = undoRedoEmits(joined, s, roomId, "undo", own, rooms'[roomId])
           /\ last' = Handled("undo", s, roomId, rs[roomId], <<own>>)
    /\ UNCHANGED <<status, crashed, joined>>

\* socket.on('undo')
Undo(s, roomId) ==
    /\ Live(s)
    /\ LET rs == getRoom(rooms, roomId)
       IN  /\ rooms' = [rs EXCEPT ![roomId] = undo(@)]
           /\ sent' = undoRedoEmits(joined, s, roomId, "undo",
                                    undoReturns(rs[roomId]), rooms'[roomId])
           /\ last' = Handled("undo", s, roomId, rs[roomId], <<undoReturns(rs[roomId])>>)
    /\ UNCHANGED <<status, crashed, joined>>

\* socket.on('redo')
Redo(s, roomId) ==
    /\ Live(s)
    /\ LET rs == getRoom(rooms, roomId)
       IN  /\ rooms' = [rs EXCEPT ![roomId] = redo(@)]
           /\ sent' = undoRedoEmits(joined, s, roomId, "redo",
                                    redoReturns(rs[roomId]), rooms'[roomId])
           /\ last' = Handled("redo", s, roomId, rs[roomId], <<redoReturns(rs[roomId])>>)
    /\ UNCHANGED <<status, crashed, joined>>

\* socket.on('clear')
Clear(s, roomId) ==
    /\ Live(s)
    /\ LET rs == getRoom(rooms, roomId)
       IN  rooms' = [rs EXCEPT ![roomId] = clear(@)]
    /\ sent' = << OperationMsg(ToRoom(joined, roomId), "clear", <<>>, -1) >>
    /\ last' = Handled("clear", s, roomId, getRoom(rooms, roomId)[roomId], <<>>)
    /\ UNCHANGED <<status, crashed, joined>>

\* getRoom on every id of a list, as the forEach of the disconnect handler
getRooms(rs, roomIds) ==
    [r \in (DOMAIN rs) \cup roomIds |->
        IF r \in DOMAIN rs THEN rs[r] ELSE NewDrawingState]

\* disconnect handler that announces the departure without the new roster
RECURSIVE disconnectEmitsNoRoster(_, _, _, _)
disconnectEmitsNoRoster(jn, s, roomIds, rs) ==
    IF roomIds = {} THEN <<>>
    ELSE LET r == CHOOSE x \in roomIds : TRUE
         IN  << UserLeftMsg(ToOthers(jn, s, r), s) >>
             \o disconnectEmitsNoRoster(jn, s, roomIds \ {r}, rs)

\* what the disconnect handler emits for the rooms it left, one room after
\* the other (the order among the rooms is the order of the registry's
\* keys, which the model does not keep: an order is picked); rs is the
\* registry after getRoom
RECURSIVE disconnectEmits(_, _, _, _)
disconnectEmits(jn, s, roomIds, rs) ==
    IF roomIds = {} THEN <<>>
    ELSE LET r == CHOOSE x \in roomIds : TRUE
         IN  << UserLeftMsg(ToOthers(jn, s, r), s),
                OnlineUsersMsg(ToRoom(jn, r), rs[r]) >>
             \o disconnectEmits(jn, s, roomIds \ {r}, rs)

\* socket.on('disconnect'): socket.io has taken the socket out of its rooms
\* before the handler runs
Disconnect(s) ==
    /\ Live(s)
    /\ joined' = [joined EXCEPT ![s] = {}]
    /\ LET left == roomsOfUser(rooms, s)
           rs   == removeUserFromAllRooms(rooms, s)
       IN  /\ rooms' = getRooms(rs, left)
           /\ sent' = disconnectEmits(joined', s, left, rooms')
    /\ status' = [status EXCEPT ![s] = "gone"]
    /\ last' = Handled("disconnect", s, "", NewDrawingState, <<>>)
    /\ UNCHANGED crashed

(* ----------------------------- client ---------------------------------- *)

\* CollaborativeCanvas: the history pair a client keeps
ClientState(operationHistory, currentOperationIndex) ==
    [operationHistory |-> operationHistory,
     currentOperationIndex |-> currentOperationIndex]

\* wsManager.on('canvasState')
onCanvasState(msg) ==
    ClientState(msg.operations, Len(msg.operations) - 1)

\* handleRemoteOperation(data)
handleRemoteOperation(client, msg) ==
    CASE msg.type \in {"undo", "redo"} ->
            ClientState(msg.operations, msg.currentIndex)
      [] msg.type = "clear" -> ClientState(<<>>, -1)
      [] OTHER -> client

(* ----------------------- PersistenceManager ---------------------------- *)

\* getFullState(): the fields saveRoomState reads
getFullState(room) ==
    [operations |-> room.operations,
     visibleOperations |-> getOperations(room),
     currentIndex |-> room.currentIndex]

\* the content of a room file: JSON that parses to the saved fields, or
\* what an interrupted write leaves (JSON.parse throws on it)
SavedRecord(state) ==
    [parses |-> TRUE, operations |-> state.operations,
     currentIndex |-> state.currentIndex]
TornFile == [parses |-> FALSE, operations |-> <<>>, currentIndex |-> -1]

\* the characters of the room ids used (a JavaScript string being a
\* sequence of characters)
IdChars(roomId) ==
    CASE roomId = "rA" -> <<"r", "A">>
      [] roomId = "rB" -> <<"r", "B">>
      [] roomId = "r_A" -> <<"r", "_", "A">>
      [] roomId = "r.A" -> <<"r", ".", "A">>

\* the characters /[a-zA-Z0-9-_]/ lets through, among those in use
SafeChars == {"r", "A", "B", "-", "_"}

\* getRoomFilePath(roomId): every other character becomes '_' (the
\* directory, the 'room_' prefix and the '.json' suffix are the same for
\* all rooms and left out)
getRoomFilePath(roomId) ==
    [i \in DOMAIN IdChars(roomId) |->
        IF IdChars(roomId)[i] \in SafeChars THEN IdChars(roomId)[i] ELSE "_"]

\* fs.existsSync(filePath) and the content of the room's file
existsFile(dk, roomId) == getRoomFilePath(roomId) \in DOMAIN dk
fileOf(dk, roomId) == dk[getRoomFilePath(roomId)]

\* how fs.writeFileSync / fs.readFileSync may answer
WriteOutcomes == {"written", "refused", "torn"}
ReadOutcomes == {"read", "refused"}

\* saveRoomState(roomId, state): the value returned and the data directory
\* left behind; a write that throws leaves the old file or a torn one
saveRoomStateReturns(write) == write = "written"
saveRoomState(dk, roomId, state, write) ==
    CASE write = "written" ->
            MapSet(dk, getRoomFilePath(roomId), SavedRecord(state))
      [] write = "torn" -> MapSet(dk, getRoomFilePath(roomId), TornFile)
      [] OTHER -> dk

\* loadRoomState that hands out whatever the file holds
loadRoomStateUnchecked(dk, roomId, read) ==
    IF ~existsFile(dk, roomId) THEN <<>>
    ELSE << [operations |-> fileOf(dk, roomId).operations,
             currentIndex |-> fileOf(dk, roomId).currentIndex] >>

\* loadRoomState(roomId): <<>> stands for null, <<record>> for the
\* {operations, currentIndex} object returned
loadRoomState(dk, roomId, read) ==
    IF ~existsFile(dk, roomId) THEN <<>>
    ELSE IF read # "read" \/ ~fileOf(dk, roomId).parses THEN <<>>
    ELSE << [operations |-> fileOf(dk, roomId).operations,
             currentIndex |-> fileOf(dk, roomId).currentIndex] >>

\* autoSave(roomId, state)
autoSave(dk, roomId, state, write) ==
    IF Len(state.operations) > 0
    THEN saveRoomState(dk, roomId, state, write)
    ELSE dk

\* the record of a PersistenceManager call: saved is <<value returned>> for
\* saveRoomState, loaded is what loadRoomState returned
Called(call, roomId, outcome, saved, loaded) ==
    [call |-> call, roomId |-> roomId, outcome |-> outcome,
     saved |-> saved, loaded |-> loaded]

Init ==
    /\ rooms = <<>>
    /\ status = [s \in Sockets |-> "connected"]
    /\ last = Handled("", "", "", NewDrawingState, <<>>)
    /\ crashed = FALSE
    /\ handled = 0
    /\ joined = [s \in Sockets |-> {}]
    /\ sent = <<>>
    /\ channel = [s \in Sockets |-> <<>>]
    /\ received = [s \in Sockets |-> <<>>]
    /\ clients = [s \in Sockets |-> ClientState(<<>>, -1)]
    /\ disk = <<>>
    /\ io = Called("", "", "", <<>>, <<>>)

\* one message taken from the network and handled, within the budget; no
\* handler reaches the PersistenceManager (saveRoom's body and its calls
\* are commented out)
Handle(handler) ==
    /\ handled < MaxMessages
    /\ handled' = handled + 1
    /\ handler
    /\ UNCHANGED <<net, store>>

\* the server with every client free to name any room
Next ==
    \/ \E s \in Sockets, r \in RoomIds : Handle(JoinRoom(s, r))
    \/ \E s \in Sockets, r \in RoomIds, k \in StartPayloads : Handle(StrokeStart(s, r, k))
    \/ \E s \in Sockets, r \in RoomIds, p \in DrawPoints : Handle(StrokeDrawPoints(s, r, p))
    \/ \E s \in Sockets, r \in RoomIds, e \in DrawEndPos : Handle(StrokeDrawEndPos(s, r, e))
    \/ \E s \in Sockets, r \in RoomIds, k \in EndPayloads : Handle(StrokeEnd(s, r, k))
    \/ \E s \in Sockets, r \in RoomIds : Handle(StrokeEndNoStroke(s, r))
    \/ \E s \in Sockets, r \in RoomIds : Handle(Cursor(s, r))
    \/ \E s \in Sockets, r \in RoomIds : Handle(Undo(s, r))
    \/ \E s \in Sockets, r \in RoomIds : Handle(Redo(s, r))
    \/ \E s \in Sockets, r \in RoomIds : Handle(Clear(s, r))
    \/ \E s \in Sockets : Handle(Disconnect(s))

Spec == Init /\ [][Next]_vars

\* the server with every client using the default room only, run without
\* a message budget
DefaultRoom == "rA"
\* the strokeEnd payloads sent in that run
RoomEndPayloads == {BrushStroke}

NextRoom ==
    \/ \E s \in Sockets : JoinRoom(s, DefaultRoom) /\ UNCHANGED <<handled, net, store>>
    \/ \E s \in Sockets, k \in StartPayloads : StrokeStart(s, DefaultRoom, k) /\ UNCHANGED <<handled, net, store>>
    \/ \E s \in Sockets, p \in DrawPoints : StrokeDrawPoints(s, DefaultRoom, p) /\ UNCHANGED <<handled, net, store>>
    \/ \E s \in Sockets, e \in DrawEndPos : StrokeDrawEndPos(s, DefaultRoom, e) /\ UNCHANGED <<handled, net, store>>
    \/ \E s \in Sockets, k \in RoomEndPayloads : StrokeEnd(s, DefaultRoom, k) /\ UNCHANGED <<handled, net, store>>
    \/ \E s \in Sockets : StrokeEndNoStroke(s, DefaultRoom) /\ UNCHANGED <<handled, net, store>>
    \/ \E s \in Sockets : Cursor(s, DefaultRoom) /\ UNCHANGED <<handled, net, store>>
    \/ \E s \in Sockets : Undo(s, DefaultRoom) /\ UNCHANGED <<handled, net, store>>
    \/ \E s \in Sockets : Redo(s, DefaultRoom) /\ UNCHANGED <<handled, net, store>>
    \/ \E s \in Sockets : Clear(s, DefaultRoom) /\ UNCHANGED <<handled, net, store>>
    \/ \E s \in Sockets : Disconnect(s) /\ UNCHANGED <<handled, net, store>>

SpecRoom == Init /\ [][NextRoom]_vars

(* ------------------------ server and clients --------------------------- *)

\* the emits of one handler run that go to socket c, in emission order,
\* numbered n
RECURSIVE emitsFor(_, _, _)
emitsFor(msgs, c, n) ==
    IF msgs = <<>> THEN <<>>
    ELSE (IF c \in Head(msgs).to THEN << [seq |-> n, msg |-> Head(msgs)] >>
          ELSE <<>>) \o emitsFor(Tail(msgs), c, n)

\* emit that puts the new messages ahead of those already on their way
enqueueAhead(ch, msgs, n, st) ==
    [c \in Sockets |->
        IF st[c] = "gone" THEN <<>> ELSE emitsFor(msgs, c, n) \o ch[c]]

\* emit: every message is written to the connection of each recipient,
\* behind what is already on its way; a closed connection carries nothing
enqueue(ch, msgs, n, st) ==
    [c \in Sockets |->
        IF st[c] = "gone" THEN <<>> ELSE ch[c] \o emitsFor(msgs, c, n)]

\* one message handled, its emits written to the connections
HandleSend(handler) ==
    /\ handled < MaxMessages
    /\ handled' = handled + 1
    /\ handler
    /\ channel' = enqueue(channel, sent', handled', status')
    /\ UNCHANGED <<received, clients, store>>

\* the client's handler for a server message (events that do not touch the
\* history pair leave it alone)
clientOn(client, msg) ==
    CASE msg.event = "canvasState" -> onCanvasState(msg)
      [] msg.event = "operation" -> handleRemoteOperation(client, msg)
      [] OTHER -> client

\* the connection of c delivers its oldest message and the client handles it
Deliver(c) ==
    /\ channel[c] # <<>>
    /\ LET m == Head(channel[c])
       IN  /\ channel' = [channel EXCEPT ![c] = Tail(@)]
           /\ clients' = [clients EXCEPT ![c] = clientOn(@, m.msg)]
           /\ received' = [received EXCEPT ![c] =
                   IF m.msg.event \in {"canvasState", "operation"}
                   THEN Append(@, m.seq) ELSE @]
    /\ UNCHANGED <<rooms, status, last, crashed, handled, joined, sent, store>>

\* the server with its clients, every client using the default room
NextNet ==
    \/ \E s \in Sockets : HandleSend(JoinRoom(s, DefaultRoom))
    \/ \E s \in Sockets, k \in StartPayloads : HandleSend(StrokeStart(s, DefaultRoom, k))
    \/ \E s \in Sockets, p \in DrawPoints : HandleSend(StrokeDrawPoints(s, DefaultRoom, p))
    \/ \E s \in Sockets, e \in DrawEndPos : HandleSend(StrokeDrawEndPos(s, DefaultRoom, e))
    \/ \E s \in Sockets, k \in RoomEndPayloads : HandleSend(StrokeEnd(s, DefaultRoom, k))
    \/ \E s \in Sockets : HandleSend(StrokeEndNoStroke(s, DefaultRoom))
    \/ \E s \in Sockets : HandleSend(Cursor(s, DefaultRoom))
    \/ \E s \in Sockets : HandleSend(Undo(s, DefaultRoom))
    \/ \E s \in Sockets : HandleSend(Redo(s, DefaultRoom))
    \/ \E s \in Sockets : HandleSend(Clear(s, DefaultRoom))
    \/ \E s \in Sockets : HandleSend(Disconnect(s))
    \/ \E c \in Sockets : Deliver(c)

SpecNet == Init /\ [][NextNet]_vars

(* -------------------- RoomManager with its persistence ----------------- *)

server == <<rooms, status, last, crashed, handled, joined, sent>>

\* persistence.saveRoomState(roomId, room.getFullState()) on a live room
SaveRoomState(roomId, write) ==
    /\ ~crashed
    /\ roomId \in DOMAIN rooms
    /\ disk' = saveRoomState(disk, roomId, getFullState(rooms[roomId]), write)
    /\ io' = Called("saveRoomState", roomId, write,
                    <<saveRoomStateReturns(write)>>, <<>>)
    /\ UNCHANGED <<server, net>>

\* persistence.loadRoomState(roomId)
LoadRoomState(roomId, read) ==
    /\ ~crashed
    /\ existsFile(disk, roomId)
    /\ io' = Called("loadRoomState", roomId, read, <<>>,
                    loadRoomState(disk, roomId, read))
    /\ UNCHANGED <<server, net, disk>>

\* persistence.autoSave(roomId, room.getFullState()) on a live room
AutoSave(roomId, write) ==
    /\ ~crashed
    /\ roomId \in DOMAIN rooms
    /\ disk' = autoSave(disk, roomId, getFullState(rooms[roomId]), write)
    /\ io' = Called("autoSave", roomId, write, <<>>, <<>>)
    /\ UNCHANGED <<server, net>>

\* the handlers of the default room with the PersistenceManager's methods
\* called in between
NextPersist ==
    \/ \E s \in Sockets : Handle(JoinRoom(s, DefaultRoom))
    \/ \E s \in Sockets, k \in RoomEndPayloads : Handle(StrokeEnd(s, DefaultRoom, k))
    \/ \E s \in Sockets : Handle(Undo(s, DefaultRoom))
    \/ \E s \in Sockets : Handle(Clear(s, DefaultRoom))
    \/ \E s \in Sockets : Handle(Disconnect(s))
    \/ \E w \in WriteOutcomes : SaveRoomState(DefaultRoom, w)
    \/ \E r \in ReadOutcomes : LoadRoomState(DefaultRoom, r)
    \/ \E w \in WriteOutcomes : AutoSave(DefaultRoom, w)

SpecPersist == Init /\ [][NextPersist]_vars

(* ------------------- commits on their way to clients ------------------- *)

\* joins, commits, undos and departures in the default room, with the
\* connections delivering what the server emitted
NextCommit ==
    \/ \E s \in Sockets : HandleSend(JoinRoom(s, DefaultRoom))
    \/ \E s \in Sockets, k \in RoomEndPayloads : HandleSend(StrokeEnd(s, DefaultRoom, k))
    \/ \E s \in Sockets : HandleSend(StrokeEndNoStroke(s, DefaultRoom))
    \/ \E s \in Sockets : HandleSend(Undo(s, DefaultRoom))
    \/ \E s \in Sockets : HandleSend(Disconnect(s))
    \/ \E c \in Sockets : Deliver(c)

\* an open connection does not hold a message back for ever
SpecCommit ==
    Init /\ [][NextCommit]_vars /\ \A c \in Sockets : WF_vars(Deliver(c))

(* ---------------------- PersistenceManager alone ----------------------- *)

\* room ids a client may name (?room=...) and room states to save
FileRoomIds == {"rA", "r_A", "r.A"}
OneOperation == addOperation(NewDrawingState, DrawOperation("c1", BrushStroke))
FileStates ==
    {getFullState(OneOperation),
     getFullState(undo(OneOperation)),
     getFullState(addOperation(OneOperation, DrawOperation("c2", RectStroke)))}

\* saveRoomState(roomId, state)
SaveState(roomId, state, write) ==
    /\ disk' = saveRoomState(disk, roomId, state, write)
    /\ io' = Called("saveRoomState", roomId, write,
                    <<saveRoomStateReturns(write)>>, <<>>)
    /\ UNCHANGED <<server, net>>

\* loadRoomState(roomId)
LoadState(roomId, read) ==
    /\ io' = Called("loadRoomState", roomId, read, <<>>,
                    loadRoomState(disk, roomId, read))
    /\ UNCHANGED <<server, net, disk>>

NextFiles ==
    \/ \E r \in FileRoomIds, st \in FileStates, w \in WriteOutcomes : SaveState(r, st, w)
    \/ \E r \in FileRoomIds, rd \in ReadOutcomes : LoadState(r, rd)

SpecFiles == Init /\ [][NextFiles]_vars

(* ------------------- strokes that name their author -------------------- *)

\* the stroke a client sends with strokeEnd carries a userId, which a
\* client is free to set to any id
ClaimedStroke(u) ==
    [tool |-> "brush", hasPoints |-> TRUE, points |-> <<1>>, endPos |-> 0,
     timestamp |-> 1, userId |-> u]
ClaimedPayloads == {ClaimedStroke(u) : u \in Sockets}

\* the handlers that write or move the log, the strokeEnd payloads naming
\* any connection as their author
NextAuthor ==
    \/ \E s \in Sockets : Handle(JoinRoom(s, DefaultRoom))
    \/ \E s \in Sockets, k \in ClaimedPayloads : Handle(StrokeEnd(s, DefaultRoom, k))
    \/ \E s \in Sockets : Handle(Undo(s, DefaultRoom))
    \/ \E s \in Sockets : Handle(Redo(s, DefaultRoom))
    \/ \E s \in Sockets : Handle(Clear(s, DefaultRoom))
    \/ \E s \in Sockets : Handle(Disconnect(s))

SpecAuthor == Init /\ [][NextAuthor]_vars

(* ============================ properties =============================== *)

\* the DrawingState a handler works on: the room getRoom hands it
RoomBefore(roomId) == getRoom(rooms, roomId)[roomId]

\* C1: in every reachable state of every room,
\* -1 <= currentIndex <= operations.length - 1.
C1_CursorBound ==
    \A r \in DOMAIN rooms :
        /\ -1 <= rooms[r].currentIndex
        /\ rooms[r].currentIndex <= Len(rooms[r].operations) - 1

\* a room whose log holds undone operations beyond the cursor and a room
\* state reached by an undo that stopped at the lower bound
C1_Witness ==
    /\ ~crashed
    /\ last.handler = "undo" /\ last.returned = <<FALSE>>
    /\ last.roomId \in DOMAIN rooms
    /\ rooms[last.roomId].currentIndex = -1
    /\ Len(rooms[last.roomId].operations) = MaxHistorySize

\* C2: in every reachable state of every room,
\* operations.length <= maxHistorySize.
C2_HistoryBound ==
    \A r \in DOMAIN rooms : Len(rooms[r].operations) <= MaxHistorySize

\* an append was handled on a log that was already full
C2_Witness ==
    /\ ~crashed
    /\ last.handler = "strokeEnd"
    /\ last.length = MaxHistorySize /\ last.index = MaxHistorySize - 1
    /\ Len(rooms[last.roomId].operations) = MaxHistorySize

\* the step is the handling of message `handler` without a crash
Handles(handler) ==
    /\ last'.handler = handler /\ ~crashed'
    /\ (handled' # handled \/ rooms' # rooms \/ last' # last)

\* the room the message handled by the step names
Before == RoomBefore(last'.roomId)
After  == rooms'[last'.roomId]

\* C3: an append made while the cursor is before the end of the log leaves
\* the old operations up to the cursor followed by the new one, the cursor
\* on the last entry, and a redo right after it fails.
C3_AppendTruncatesForward ==
    [][(Handles("strokeEnd")
           /\ Before.currentIndex < Len(Before.operations) - 1)
        => /\ \E k \in EndPayloads :
                 After.operations =
                    SubSeq(Before.operations, 1, Before.currentIndex + 1)
                       \o <<DrawOperation(last'.socket, k)>>
           /\ After.currentIndex = Len(After.operations) - 1
           /\ Len(After.operations) <= Len(Before.operations)
           /\ ~redoReturns(After)
           /\ redo(After) = After]_vars

\* a strokeEnd was handled while the log had a full undone tail
\* (cursor -1, log non-empty)
C3_Witness ==
    /\ ~crashed
    /\ last.handler = "strokeEnd"
    /\ last.index = -1 /\ last.length = MaxHistorySize
    /\ Len(rooms[last.roomId].operations) = 1

\* C4: an append that makes the log exceed maxHistorySize drops exactly the
\* excess oldest entries, lowers the cursor by the excess so that it still
\* designates the operation just appended, and keeps the survivors' order.
C4_TrimKeepsCursor ==
    [][(Handles("strokeEnd")
           /\ Before.currentIndex = Len(Before.operations) - 1
           /\ Len(Before.operations) + 1 > MaxHistorySize)
        => \E k \in EndPayloads :
             LET full   == Before.operations \o <<DrawOperation(last'.socket, k)>>
                 excess == Len(full) - MaxHistorySize
             IN  /\ After.operations = SubSeq(full, excess + 1, Len(full))
                 /\ After.currentIndex = Before.currentIndex + 1 - excess
                 /\ After.operations[After.currentIndex + 1]
                       = DrawOperation(last'.socket, k)
                 /\ Len(After.operations) = MaxHistorySize]_vars

\* a strokeEnd was handled on a full log with the cursor at its end, and
\* the log holds two different operations after it
C4_Witness ==
    /\ ~crashed
    /\ last.handler = "strokeEnd"
    /\ last.length = MaxHistorySize /\ last.index = MaxHistorySize - 1
    /\ rooms[last.roomId].currentIndex = MaxHistorySize - 1
    /\ rooms[last.roomId].operations[1] # rooms[last.roomId].operations[MaxHistorySize]

\* C5: undo at cursor -1 and redo at cursor = length - 1 return false and
\* leave operations, cursor and active strokes unchanged; otherwise undo
\* lowers and redo raises the cursor by exactly 1 and returns true.
C5_UndoRedoBoundaries ==
    [][/\ Handles("undo") =>
             IF Before.currentIndex = -1
             THEN /\ last'.returned = <<FALSE>>
                  /\ After = Before
             ELSE /\ last'.returned = <<TRUE>>
                  /\ After.currentIndex = Before.currentIndex - 1
       /\ Handles("redo") =>
             IF Before.currentIndex = Len(Before.operations) - 1
             THEN /\ last'.returned = <<FALSE>>
                  /\ After = Before
             ELSE /\ last'.returned = <<TRUE>>
                  /\ After.currentIndex = Before.currentIndex + 1]_vars

\* a redo was refused at the end of a non-empty log while an author had a
\* stroke staged
C5_Witness ==
    /\ ~crashed
    /\ last.handler = "redo" /\ last.returned = <<FALSE>>
    /\ last.length > 0 /\ last.index = last.length - 1
    /\ last.active # {}

\* C6: right after a clear the room's log is empty, its cursor is -1 and it
\* has no active stroke for any author; its member roster is unchanged.
C6_ClearResets ==
    [][Handles("clear") =>
            /\ After.operations = <<>>
            /\ After.currentIndex = -1
            /\ DOMAIN After.activeStrokes = {}
            /\ After.users = Before.users]_vars

\* a clear was handled in a room with members, a non-empty log and a stroke
\* in progress
C6_Witness ==
    /\ ~crashed
    /\ last.handler = "clear"
    /\ last.length > 0 /\ last.active # {}
    /\ rooms[last.roomId].users # {}

\* C7: in every reachable state getOperations() is the prefix of
\* getAllOperations() from index 0 through currentIndex inclusive, and its
\* length is currentIndex + 1.
C7_VisibleSlice ==
    \A r \in DOMAIN rooms :
        /\ getOperations(rooms[r]) =
              SubSeq(getAllOperations(rooms[r]), 1, rooms[r].currentIndex + 1)
        /\ Len(getOperations(rooms[r])) = rooms[r].currentIndex + 1

\* a room whose visible history is a proper, non-empty prefix of its log
C7_Witness ==
    \E r \in DOMAIN rooms :
        /\ 0 <= rooms[r].currentIndex
        /\ rooms[r].currentIndex < Len(rooms[r].operations) - 1

\* the operations of a log that record userId as their author
AuthoredBy(operations, userId) ==
    {i \in 1..Len(operations) : operations[i].userId = userId}

\* C8: when a connection with an active stroke in a room disconnects, the
\* room's operations and currentIndex are the same right after the
\* disconnect as right before it, and from then on no log gains an
\* operation of that connection.
C8_DisconnectNeverCommits ==
    [][/\ Handles("disconnect") =>
            \A r \in DOMAIN rooms :
                hasActiveStroke(rooms[r], last'.socket) =>
                    /\ r \in DOMAIN rooms'
                    /\ rooms'[r].operations = rooms[r].operations
                    /\ rooms'[r].currentIndex = rooms[r].currentIndex
       /\ \A s \in Sockets : status'[s] = "gone" =>
            \A r \in DOMAIN rooms' :
                Cardinality(AuthoredBy(rooms'[r].operations, s))
                   <= IF r \in DOMAIN rooms
                      THEN Cardinality(AuthoredBy(rooms[r].operations, s))
                      ELSE 0]_vars

\* the sender of the message handled by the step had not joined the room
\* the message names
SenderNotJoined ==
    \/ last'.roomId \notin DOMAIN rooms
    \/ ~hasUser(rooms[last'.roomId], last'.socket)

\* C9: a strokeStart, strokeDraw, strokeEnd, undo, redo or clear from a
\* connection that has not joined the room it names changes no room and
\* adds no room to the registry.
C9_UnjoinedIgnored ==
    [][(/\ last'.handler \in {"strokeStart", "strokeDraw", "strokeEnd",
                              "undo", "redo", "clear"}
        /\ handled' # handled
        /\ SenderNotJoined)
       => rooms' = rooms]_vars

\* C10: a connection is a member of at most one room at any moment.
C10_OneRoomPerConnection ==
    \A s \in Sockets : Cardinality(roomsOfUser(rooms, s)) <= 1

(* ------------------------- rooms and messages -------------------------- *)

\* the roster of a room after the step ({} when the registry has no such
\* room)
MembersAfter(roomId) ==
    IF roomId \in DOMAIN rooms' THEN rooms'[roomId].users ELSE {}

\* the emits of the step that carry event e
SentAfter(e) == {i \in DOMAIN sent' : sent'[i].event = e}

\* C11: after every handler every room in the registry has a non-empty
\* member roster.
C11_NoEmptyRoom ==
    \A r \in DOMAIN rooms : rooms[r].users # {}

\* C12: the 'stroke' message of a strokeStart, strokeDraw or strokeEnd and
\* the 'cursor' message of a cursor go to every other connection of the
\* room named and never to the sender.
C12_StrokeExcludesSender ==
    [][(last'.handler \in {"strokeStart", "strokeDraw", "strokeEnd", "cursor"})
       => /\ \A i \in SentAfter("stroke") \cup SentAfter("cursor") :
                /\ sent'[i].to = MembersAfter(last'.roomId) \ {last'.socket}
                /\ last'.socket \notin sent'[i].to
                /\ sent'[i].userId = last'.socket
          /\ (last'.handler = "strokeStart") =>
                \E i \in SentAfter("stroke") : sent'[i].phase = "start"
          /\ (last'.handler = "strokeEnd" /\ ~crashed') =>
                \E i \in SentAfter("stroke") : sent'[i].phase = "end"
          /\ (last'.handler = "cursor") => SentAfter("cursor") # {}]_vars

\* a member's strokeDraw was relayed to the other member of its room
C12_Witness ==
    /\ last.handler = "strokeDraw"
    /\ sent # <<>>
    /\ sent[1].event = "stroke" /\ sent[1].phase = "draw"
    /\ sent[1].to # {}
    /\ last.socket \in rooms[last.roomId].users

\* the step commits a stroke, moves the cursor or clears
Authoritative ==
    \/ last'.handler = "strokeEnd" /\ ~crashed'
    \/ last'.handler \in {"undo", "redo"} /\ last'.returned = <<TRUE>>
    \/ last'.handler = "clear"

\* C13: the canvasState of a commit and the 'operation' of a successful
\* undo, redo or clear go to every connection of the room and also to the
\* connection that sent the request.
C13_AuthoritativeIncludesSender ==
    [][Authoritative =>
         \E i \in SentAfter("canvasState") \cup SentAfter("operation") :
            sent'[i].to = MembersAfter(last'.roomId) \cup {last'.socket}]_vars

\* C14: strokeEnd appends the operation, then emits the stroke-end to the
\* other members, then the canvasState to all members; the canvasState
\* carries the visible operations and the cursor as they are after the
\* append.
C14_CommitPath ==
    [][(last'.handler = "strokeEnd" /\ ~crashed')
       => \E k \in EndPayloads :
            LET appended == addOperation(Before, DrawOperation(last'.socket, k))
            IN  /\ After.operations = appended.operations
                /\ After.currentIndex = appended.currentIndex
                /\ Len(sent') = 2
                /\ sent'[1].event = "stroke" /\ sent'[1].phase = "end"
                /\ sent'[1].stroke = k
                /\ sent'[1].to = After.users \ {last'.socket}
                /\ sent'[2].event = "canvasState"
                /\ sent'[2].to = After.users
                /\ sent'[2].operations =
                      SubSeq(After.operations, 1, After.currentIndex + 1)
                /\ sent'[2].currentIndex = After.currentIndex]_vars

\* a member committed a stroke onto a non-empty log in a room with another
\* member
C14_Witness ==
    /\ last.handler = "strokeEnd" /\ ~crashed
    /\ last.length > 0
    /\ Len(sent) = 2
    /\ sent[1].to # {}
    /\ last.socket \in sent[2].to

\* C15: on joinRoom the joiner becomes a member, the canvasState snapshot
\* (visible operations and cursor) goes to the joiner only, and userJoined
\* goes to every other member and not to the joiner.
C15_JoinSnapshot ==
    [][(last'.handler = "joinRoom")
       => /\ last'.socket \in After.users
          /\ \E i \in SentAfter("canvasState") :
                /\ sent'[i].to = {last'.socket}
                /\ sent'[i].operations =
                      SubSeq(After.operations, 1, After.currentIndex + 1)
                /\ sent'[i].currentIndex = After.currentIndex
          /\ \A i \in SentAfter("canvasState") : sent'[i].to = {last'.socket}
          /\ \E i \in SentAfter("userJoined") :
                /\ sent'[i].to = After.users \ {last'.socket}
                /\ sent'[i].userId = last'.socket
          /\ \A i \in SentAfter("userJoined") : last'.socket \notin sent'[i].to]_vars

\* a connection joined a room that had another member and a non-empty log
C15_Witness ==
    /\ last.handler = "joinRoom"
    /\ last.length > 0
    /\ Cardinality(rooms[last.roomId].users) = 2
    /\ \E i \in DOMAIN sent : sent[i].event = "userJoined" /\ sent[i].to # {}

\* the pair the server holds for the room of the message just handled
ServerPair == ClientState(After.operations, After.currentIndex)

\* C17: a successful undo or redo broadcasts one 'operation' message with
\* the room's full operation sequence and the cursor after the move; a
\* client applying it holds the server's (operations, cursor) pair.
C17_OperationCarriesFullState ==
    [][(last'.handler \in {"undo", "redo"} /\ last'.returned = <<TRUE>>)
       => /\ Len(sent') = 1
          /\ sent'[1].event = "operation"
          /\ sent'[1].type = last'.handler
          /\ sent'[1].operations = After.operations
          /\ sent'[1].currentIndex = After.currentIndex
          /\ After.operations = Before.operations
          /\ \A h \in {<<>>, Before.operations}, c \in {-1, Before.currentIndex} :
                handleRemoteOperation(ClientState(h, c), sent'[1]) = ServerPair]_vars

\* an undo succeeded on a log that keeps an undone tail, with a member
\* receiving the broadcast
C17_Witness ==
    /\ last.handler = "undo" /\ last.returned = <<TRUE>>
    /\ sent[1].to # {}
    /\ Len(sent[1].operations) > sent[1].currentIndex + 1
    /\ sent[1].currentIndex >= 0

\* C18: after a client processes a canvasState its (operationHistory,
\* currentOperationIndex) pair equals the server's (operations,
\* currentIndex) pair at the time the message was sent, undone tail
\* included.
C18_CanvasStateConverges ==
    [][\A i \in SentAfter("canvasState") : onCanvasState(sent'[i]) = ServerPair]_vars

\* C19: an undo or redo with nothing to do notifies the requester only,
\* broadcasts no 'operation' and leaves the room unchanged.
C19_NoOpRequest ==
    [][(last'.handler \in {"undo", "redo"} /\ last'.returned = <<FALSE>>)
       => /\ Len(sent') = 1
          /\ sent'[1].event = "notification"
          /\ sent'[1].to = {last'.socket}
          /\ SentAfter("operation") = {}
          /\ After = Before]_vars

\* a member's redo was refused while its room had another member
C19_Witness ==
    /\ last.handler = "redo" /\ last.returned = <<FALSE>>
    /\ last.socket \in rooms[last.roomId].users
    /\ Cardinality(rooms[last.roomId].users) = 2
    /\ sent[1].to = {last.socket}

\* the sockets that are members of some room other than roomId and not of
\* roomId, after the step
OnlyElsewhere(roomId) ==
    {c \in Sockets :
        /\ c \notin MembersAfter(roomId)
        /\ \E r \in DOMAIN rooms' : r # roomId /\ c \in rooms'[r].users}

\* C20: a message handled for room A leaves every other room B unchanged
\* and sends nothing to connections that are only in B.
C20_RoomsIsolated ==
    [][(last'.handler \notin {"", "disconnect"})
       => /\ \A r \in RoomIds \ {last'.roomId} :
                /\ (r \in DOMAIN rooms') = (r \in DOMAIN rooms)
                /\ r \in DOMAIN rooms => rooms'[r] = rooms[r]
          /\ \A i \in DOMAIN sent' :
                sent'[i].to \cap OnlyElsewhere(last'.roomId) = {}]_vars

\* the numbers of the canvasState / operation messages still on their way
\* to c, oldest first
RECURSIVE AuthoritativeSeqs(_)
AuthoritativeSeqs(ch) ==
    IF ch = <<>> THEN <<>>
    ELSE (IF Head(ch).msg.event \in {"canvasState", "operation"}
          THEN << Head(ch).seq >> ELSE <<>>) \o AuthoritativeSeqs(Tail(ch))

StrictlyIncreasing(q) == \A i, j \in DOMAIN q : i < j => q[i] < q[j]

\* C16: every connection receives the canvasState / operation messages in
\* the order in which the server applied the mutations they report: of two
\* such messages the one of the earlier handler run is received first, and
\* what is still on its way is younger than all that was received.
C16_ServerOrder ==
    \A c \in Sockets :
        StrictlyIncreasing(received[c] \o AuthoritativeSeqs(channel[c]))

\* a client has processed the messages of two mutations of its room
C16_Witness ==
    \E c \in Sockets :
        /\ Len(received[c]) >= 3
        /\ c \in ToRoom(joined, DefaultRoom)

(* ----------------------------- persistence ----------------------------- *)

\* the (operations, currentIndex) pair a room would be seeded with from the
\* data directory: the record loadRoomState returns, the empty pair when it
\* returns null
Restored(dk, roomId) ==
    LET loaded == loadRoomState(dk, roomId, "read")
    IN  IF loaded = <<>> THEN [operations |-> <<>>, currentIndex |-> -1]
        ELSE loaded[1]

\* the (operations, currentIndex) pair of a room
LogPair(room) ==
    [operations |-> room.operations, currentIndex |-> room.currentIndex]

\* the rooms a disconnect evicts: those whose only member is the socket
\* that left
EvictedBy(s) == {r \in DOMAIN rooms : rooms[r].users = {s}}

\* C21: when the removal of a member empties a room, the room's final
\* operations and cursor are saved before the room is removed: right after
\* the eviction the data directory holds them.
C21_SaveBeforeEvict ==
    [][Handles("disconnect") =>
          \A r \in EvictedBy(last'.socket) :
              /\ existsFile(disk', r)
              /\ fileOf(disk', r) = SavedRecord(getFullState(rooms[r]))]_vars

\* C22: a room created for an id that has a persisted record starts with
\* the record's operations and cursor, and with an empty log and cursor -1
\* when there is none; this holds for the room a joinRoom creates and for
\* the room the disconnect handler creates anew after evicting it.
C22_RestoreOnCreate ==
    [][/\ (Handles("joinRoom") /\ last'.roomId \notin DOMAIN rooms)
            => LogPair(After) = Restored(disk, last'.roomId)
       /\ Handles("disconnect")
            => \A r \in EvictedBy(last'.socket) \cap DOMAIN rooms' :
                  LogPair(rooms'[r]) = Restored(disk, r)]_vars

(* --------------------------- active strokes ---------------------------- *)

\* the sender of the message handled by the step had no active stroke in
\* the room the message names
SenderNotStaged == ~hasActiveStroke(Before, last'.socket)

C24_NeverCrashes == ~crashed

\* the step is a call of a PersistenceManager method
Persists == io' # io \/ disk' # disk

\* the file of the room the call names cannot be read back by this call
LoadFails ==
    \/ io'.outcome # "read"
    \/ ~fileOf(disk, io'.roomId).parses

\* C25: a save that fails returns false and a load that fails returns
\* nothing; neither changes any room's operations, currentIndex, active
\* strokes or members nor stops the server, and a room created while its
\* file cannot be parsed starts empty.
C25_PersistenceFailureIsAValue ==
    [][/\ Persists =>
            /\ rooms' = rooms
            /\ crashed' = crashed
            /\ (io'.call = "saveRoomState" /\ io'.outcome # "written")
                  => io'.saved = <<FALSE>>
            /\ (io'.call = "loadRoomState" /\ LoadFails)
                  => io'.loaded = <<>>
       /\ Handles("disconnect") =>
            \A r \in EvictedBy(last'.socket) \cap DOMAIN rooms' :
                (existsFile(disk, r) /\ ~fileOf(disk, r).parses) =>
                    LogPair(rooms'[r]) = [operations |-> <<>>, currentIndex |-> -1]]_vars

\* a load of a live room's file failed after an interrupted save left the
\* file torn, the room keeping its log and its member
C25_Witness ==
    /\ io.call = "loadRoomState" /\ io.loaded = <<>>
    /\ existsFile(disk, io.roomId) /\ ~fileOf(disk, io.roomId).parses
    /\ io.roomId \in DOMAIN rooms
    /\ rooms[io.roomId].operations # <<>>
    /\ rooms[io.roomId].users # {}

\* C26: after an auto-save of a live room whose write succeeded, the
\* persisted record restores the room's current operations and cursor, also
\* when the room was cleared to an empty log after an earlier save.
C26_AutoSaveOverwrites ==
    [][(Persists /\ io'.call = "autoSave" /\ io'.outcome = "written"
           /\ rooms[io'.roomId].users # {})
       => Restored(disk', io'.roomId) = LogPair(rooms[io'.roomId])]_vars

\* C27: strokeStart by author X makes the stroke of the message X's active
\* stroke in the room, in place of any unfinished stroke X had; the active
\* strokes of all other authors, the operations, the currentIndex and the
\* members are unchanged.
C27_StrokeStartStages ==
    [][Handles("strokeStart")
       => /\ hasActiveStroke(After, last'.socket)
          /\ After.activeStrokes[last'.socket] \in StartPayloads
          /\ After.activeStrokes[last'.socket] = sent'[1].stroke
          /\ DOMAIN After.activeStrokes
                = DOMAIN Before.activeStrokes \cup {last'.socket}
          /\ \A u \in DOMAIN Before.activeStrokes \ {last'.socket} :
                After.activeStrokes[u] = Before.activeStrokes[u]
          /\ After.operations = Before.operations
          /\ After.currentIndex = Before.currentIndex
          /\ After.users = Before.users]_vars

\* an author with an unfinished stroke started a rectangle while another
\* author had a stroke in progress in the same room
C27_Witness ==
    /\ last.handler = "strokeStart"
    /\ last.socket \in last.active
    /\ last.active # {last.socket}
    /\ rooms[last.roomId].activeStrokes[last.socket] = RectStroke
    /\ DOMAIN rooms[last.roomId].activeStrokes = Sockets

\* C28: a strokeDraw from an author with no active stroke in the room
\* changes no state and sends no 'stroke' message to anyone.
C28_DrawWithoutStrokeIgnored ==
    [][(last'.handler = "strokeDraw" /\ handled' # handled /\ SenderNotStaged)
       => /\ rooms' = rooms
          /\ SentAfter("stroke") = {}]_vars

\* C29: a strokeDraw with points for an author whose active stroke is a
\* free path makes the stroke's points the old points followed by the new
\* ones in the order received and changes nothing else of the stroke; a
\* strokeDraw with endPos changes the stroke's end position only.
C29_DrawAppendsPoints ==
    [][(Handles("strokeDraw") /\ ~SenderNotStaged)
       => LET old == Before.activeStrokes[last'.socket]
              new == After.activeStrokes[last'.socket]
              payload == sent'[1].stroke
          IN  /\ Len(sent') = 1
              /\ IF "points" \in DOMAIN payload
                 THEN /\ payload.points \in DrawPoints
                      /\ new.points = old.points \o payload.points
                      /\ SubSeq(new.points, 1, Len(old.points)) = old.points
                      /\ new = [old EXCEPT !.points = new.points]
                 ELSE /\ payload.endPos \in DrawEndPos
                      /\ new = [old EXCEPT !.endPos = payload.endPos]
                      /\ new.points = old.points]_vars

\* a brush stroke staged with one point received two more
C29_Witness ==
    /\ last.handler = "strokeDraw" /\ ~crashed
    /\ last.socket \in DOMAIN rooms[last.roomId].activeStrokes
    /\ rooms[last.roomId].activeStrokes[last.socket].points = <<1, 2, 3>>

\* C30: strokeStart, strokeDraw and cursor leave the operations and the
\* currentIndex of every room as they were (a room such a message creates
\* has an empty log), and a room's log gains or changes entries only in
\* the handling of a strokeEnd naming that room.
C30_StagingKeepsLog ==
    [][/\ (last'.handler \in {"strokeStart", "strokeDraw", "cursor"})
            => \A r \in DOMAIN rooms' : LogPair(rooms'[r]) = LogPair(RoomBefore(r))
       /\ \A r \in DOMAIN rooms' :
            (/\ rooms'[r].operations # RoomBefore(r).operations
             /\ rooms'[r].operations # <<>>)
                => last'.handler = "strokeEnd" /\ last'.roomId = r]_vars

\* a stroke was started in a room whose log already held an operation, and
\* the log is as long as before
C30_Witness ==
    /\ last.handler = "strokeStart"
    /\ last.length > 0
    /\ Len(rooms[last.roomId].operations) = last.length
    /\ rooms[last.roomId].currentIndex = last.index
    /\ last.socket \in DOMAIN rooms[last.roomId].activeStrokes

(* ------------------------------ undo / redo ---------------------------- *)

\* C31: undo and redo change only currentIndex: the operations, the active
\* strokes of every author and the members of the room are the same after
\* the call as before it, whether it succeeds or fails.
C31_UndoRedoFrame ==
    [][(Handles("undo") \/ Handles("redo"))
       => /\ After.operations = Before.operations
          /\ After.activeStrokes = Before.activeStrokes
          /\ After.users = Before.users
          /\ After = [Before EXCEPT !.currentIndex = After.currentIndex]]_vars

\* an undo succeeded in a room with two members, a full log and a stroke in
\* progress, and the log is still full
C31_Witness ==
    /\ last.handler = "undo" /\ last.returned = <<TRUE>>
    /\ last.length = MaxHistorySize
    /\ Len(rooms[last.roomId].operations) = MaxHistorySize
    /\ rooms[last.roomId].users = Sockets
    /\ DOMAIN rooms[last.roomId].activeStrokes # {}

(* ------------------------------ disconnect ----------------------------- *)

\* C32: after a connection disconnects it is a member of no room and has
\* no active stroke in any room, and the remaining members of every room
\* it left are sent userLeft for it.
C32_DisconnectCleansUp ==
    [][Handles("disconnect")
       => /\ \A r \in DOMAIN rooms' :
                /\ ~hasUser(rooms'[r], last'.socket)
                /\ ~hasActiveStroke(rooms'[r], last'.socket)
          /\ \A r \in roomsOfUser(rooms, last'.socket) :
                \E i \in SentAfter("userLeft") :
                    /\ sent'[i].userId = last'.socket
                    /\ sent'[i].to = MembersAfter(r)]_vars

\* the authors with an active stroke in room r before the step and none
\* after it
Unstaged(r) ==
    {u \in DOMAIN rooms[r].activeStrokes :
        r \notin DOMAIN rooms' \/ ~hasActiveStroke(rooms'[r], u)}

\* C33: an author's active stroke leaves the stage only in the handling of
\* that author's own strokeEnd or of that author's disconnect; no message
\* of another connection removes it.
C33_OnlyAuthorUnstages ==
    [][\A r \in DOMAIN rooms : \A u \in Unstaged(r) :
          /\ last'.socket = u
          /\ last'.handler \in {"strokeEnd", "disconnect"}]_vars

\* C33 as amended: an author's active stroke leaves the stage only in the
\* handling of that author's own strokeEnd naming the room, of that
\* author's disconnect, of a clear naming the room (from any connection),
\* or of the disconnect of the room's last member, which evicts the room.
C33_UnstagedByEndLeaveOrClear ==
    [][\A r \in DOMAIN rooms : \A u \in Unstaged(r) :
          \/ last'.handler = "strokeEnd" /\ last'.socket = u /\ last'.roomId = r
          \/ last'.handler = "disconnect" /\ last'.socket = u
          \/ last'.handler = "clear" /\ last'.roomId = r
          \/ last'.handler = "disconnect" /\ r \in EvictedBy(last'.socket)]_vars

\* a member's clear emptied the stage while the other member had a stroke
\* in progress
C33_Witness ==
    /\ last.handler = "clear"
    /\ last.active # {} /\ last.socket \notin last.active
    /\ rooms[last.roomId].users = Sockets
    /\ DOMAIN rooms[last.roomId].activeStrokes = {}

(* ------------------------------- commit -------------------------------- *)

\* C34: the operation a strokeEnd appends carries the stroke staged on the
\* server for the author, as strokeStart and the strokeDraw messages built
\* it, and that record leaves the stage.
C34_CommitsStagedStroke ==
    [][(Handles("strokeEnd") /\ ~SenderNotStaged)
       => /\ After.operations[After.currentIndex + 1].stroke
                = Before.activeStrokes[last'.socket]
          /\ ~hasActiveStroke(After, last'.socket)]_vars

(* ------------------------------- roster -------------------------------- *)

\* C35: after a joinRoom, and after a disconnect for each room the
\* connection left, every connection then in the room is sent an
\* onlineUsers message whose user list is the room's roster after the
\* change; the roster holds each connection once.
C35_RosterBroadcast ==
    [][/\ Handles("joinRoom") =>
            /\ last'.socket \in After.users
            /\ \E i \in SentAfter("onlineUsers") :
                  /\ sent'[i].to = After.users
                  /\ sent'[i].users = After.users
            /\ \A i \in SentAfter("onlineUsers") : sent'[i].users = After.users
       /\ Handles("disconnect") =>
            \A r \in roomsOfUser(rooms, last'.socket) :
                \E i \in SentAfter("onlineUsers") :
                    /\ sent'[i].to = MembersAfter(r)
                    /\ sent'[i].users = MembersAfter(r)
                    /\ last'.socket \notin sent'[i].users]_vars

\* a member left a room and the member that stayed was sent the roster
\* holding itself alone
C35_Witness ==
    /\ last.handler = "disconnect"
    /\ \E i \in DOMAIN sent :
          /\ sent[i].event = "onlineUsers"
          /\ sent[i].to # {}
          /\ sent[i].users = sent[i].to
          /\ last.socket \notin sent[i].users

(* ---------------------------- global undo ------------------------------ *)

\* C36: an undo from any connection succeeds exactly when the room's
\* currentIndex is at least 0 and hides the operation at the cursor whoever
\* authored it; a successful redo from any connection makes the next
\* operation of the log visible again.
C36_GlobalUndoRedo ==
    [][/\ Handles("undo") =>
            /\ (last'.returned = <<TRUE>>) = (Before.currentIndex >= 0)
            /\ (Before.currentIndex >= 0) =>
                  /\ Len(getOperations(After)) = Len(getOperations(Before)) - 1
                  /\ getOperations(Before) = getOperations(After)
                        \o << Before.operations[Before.currentIndex + 1] >>
       /\ (Handles("redo") /\ last'.returned = <<TRUE>>) =>
            getOperations(After) = getOperations(Before)
                \o << Before.operations[Before.currentIndex + 2] >>]_vars

\* a member's undo hid an operation authored by the other connection
C36_Witness ==
    /\ last.handler = "undo" /\ last.returned = <<TRUE>>
    /\ last.socket \in rooms[last.roomId].users
    /\ rooms[last.roomId].operations[last.index + 1].userId # last.socket
    /\ rooms[last.roomId].currentIndex = last.index - 1

\* k calls of undo() / redo() in a row
RECURSIVE UndoTimes(_, _)
UndoTimes(room, k) == IF k = 0 THEN room ELSE UndoTimes(undo(room), k - 1)
RECURSIVE RedoTimes(_, _)
RedoTimes(room, k) == IF k = 0 THEN room ELSE RedoTimes(redo(room), k - 1)

\* each of k redo() calls in a row returns true
RECURSIVE RedosSucceed(_, _)
RedosSucceed(room, k) ==
    k = 0 \/ (redoReturns(room) /\ RedosSucceed(redo(room), k - 1))

\* C37: in every reachable room state, k successful undos followed by k
\* redos give back the same operations and currentIndex, each redo
\* succeeding, and a successful redo followed by an undo does likewise.
C37_UndoRedoRoundTrip ==
    \A r \in DOMAIN rooms :
        /\ \A k \in 1..(rooms[r].currentIndex + 1) :
              /\ UndoTimes(rooms[r], k).currentIndex = rooms[r].currentIndex - k
              /\ RedosSucceed(UndoTimes(rooms[r], k), k)
              /\ RedoTimes(UndoTimes(rooms[r], k), k) = rooms[r]
        /\ redoReturns(rooms[r]) => undo(redo(rooms[r])) = rooms[r]

\* a redo brought the cursor back to the end of a full log, which two undos
\* can leave again
C37_Witness ==
    /\ last.handler = "redo" /\ last.returned = <<TRUE>>
    /\ last.length = MaxHistorySize
    /\ rooms[last.roomId].currentIndex = MaxHistorySize - 1
    /\ rooms[last.roomId].currentIndex >= 1

(* ------------------------------ authorship ----------------------------- *)

\* C38: the operation a strokeEnd appends records the id of the connection
\* that sent the strokeEnd as its userId, whatever userId the stroke of the
\* message names, and no step adds to a log an operation attributed to a
\* connection other than the sender of the message handled.
C38_AuthorIsSender ==
    [][/\ Handles("strokeEnd") =>
            After.operations[After.currentIndex + 1].userId = last'.socket
       /\ \A r \in DOMAIN rooms', u \in Sockets \ {last'.socket} :
            Cardinality(AuthoredBy(rooms'[r].operations, u))
               <= Cardinality(AuthoredBy(RoomBefore(r).operations, u))]_vars

\* the log holds an operation of one connection whose stroke names the
\* other connection as its author
C38_Witness ==
    /\ last.handler = "strokeEnd" /\ ~crashed
    /\ LET op == rooms[last.roomId].operations[rooms[last.roomId].currentIndex + 1]
       IN  /\ op.userId = last.socket
           /\ op.stroke.userId # last.socket

(* ------------------------------ room files ----------------------------- *)

\* C39: persisted records are keyed one-to-one by room id: saving the state
\* of one room never changes what a load of another room returns.
C39_RecordsKeyedByRoom ==
    [][(Persists /\ io'.call = "saveRoomState")
       => \A r2 \in FileRoomIds \ {io'.roomId} :
             loadRoomState(disk', r2, "read") = loadRoomState(disk, r2, "read")]_vars

(* ------------------------------- liveness ------------------------------ *)

\* the elements of a sequence
Range(q) == {q[i] : i \in DOMAIN q}

\* the n-th message handled was a member's strokeEnd that appended its
\* operation, and c was in the room at that moment
CommittedFor(c, n) ==
    /\ handled = n
    /\ last.handler = "strokeEnd" /\ ~crashed
    /\ last.socket \in rooms[last.roomId].users
    /\ last.roomId \in joined[c]

\* C40: every strokeEnd of a member leads to every connection that was in
\* the room and stays connected, the sender included, processing the
\* canvasState emitted after the stroke's operation was appended.
C40_CommitReachesRoom ==
    \A c \in Sockets, n \in 1..MaxMessages :
        CommittedFor(c, n) ~> (n \in Range(received[c]) \/ status[c] = "gone")

\* both members have processed the canvasState of the strokeEnd handled
\* last
C40_Witness ==
    /\ last.handler = "strokeEnd" /\ ~crashed
    /\ rooms[last.roomId].users = Sockets
    /\ \A c \in Sockets : handled \in Range(received[c])
====
